---- MODULE Spec2Model ----
(***************************************************************************)
(* Model of the crypto_analyzer repository: the pipeline driver (main.py), *)
(* the downloader and series aligner (download_historical_data.py), the    *)
(* correlation engine (analyze_correlations.py), the market divergence     *)
(* engine (analyze_price_distance.py) and the dashboard app                *)
(* (web_visualization/app.py).                                             *)
(*                                                                         *)
(* Floating point values are modelled as exact rationals extended with the *)
(* IEEE special values NaN, +inf and -inf.                                 *)
(***************************************************************************)
EXTENDS Integers, Sequences, FiniteSets, TLC

VARIABLES
    \* ---- main.py: the pipeline driver and its child scripts
    pc,               \* position of main(): "main", "child", "exited", "halted", "done"
    stage,            \* number of stages main() has passed
    started,          \* scripts handed to subprocess.run, in order
    exits,            \* exit status of each finished child, in order
    results,          \* return value of each finished run_script call, in order
    completed,        \* the 'completed successfully' message was logged
    files,            \* names of the files present in the working directory
    childExit,        \* exit status of the child that has just ended
    dl,               \* download child: the mapping returned by the downloader
    loadFailed,       \* analysis children whose load_combined_data gave (None, None)
    \* ---- download_historical_data.py: save_combined_data
    historical_data,  \* the symbol -> DataFrame mapping, in iteration order
    combined_prices,  \* historical_data/combined_prices.csv
    combined_returns, \* historical_data/combined_returns.csv
    alignCalls,       \* number of save_combined_data calls made
    \* ---- analyze_correlations.py / analyze_price_distance.py
    returns_df,       \* the aligned return matrix handed to the analysis
    apc,              \* position of the analysis run
    argsort_stable,   \* whether the argsort of this run keeps equal keys in order
    summary_df,       \* average_returns.csv
    identifyCalls,    \* number of identify_uncorrelated_coins calls made
    corr_matrix,      \* result of create_correlation_matrix
    corr_in,          \* the matrix handed to identify_uncorrelated_coins
    avg_corr_df,      \* average_correlations.csv
    uncorrelated_coins, \* uncorrelated_coins.csv
    threshold,        \* the threshold argument of the running selector
    market_df,        \* market_average_returns.csv
    dist,             \* the four results of calculate_price_distance
    comparison_data,  \* comparison_data.json
    \* ---- download_historical_data.py: get_with_retry
    gpc,              \* position of get_with_retry: "idle", "loop", "returned"
    max_retries,      \* its max_retries argument
    initial_delay,    \* its initial_delay argument
    retry_count,      \* its local retry_count
    delay,            \* its local delay
    requests,         \* number of requests.get calls made by this call
    sleeps,           \* number of time.sleep calls made by this call
    last_sleep,       \* jitter and duration of the latest time.sleep
    response,         \* outcome of the latest requests.get, whether a sleep followed
    failures,         \* number of 429 responses and request exceptions so far
    ret,              \* the value returned by the call
    \* ---- download_historical_data.py: download_historical_data_coingecko
    dpc,              \* position of the loop: "idle", "next", "fetching", "done"
    coins,            \* the symbols of the coins argument, in order
    idx,              \* index of the coin the loop is at
    csv_files,        \* names of the files in HISTORICAL_DATA_DIR
    start_files,      \* those names when the function was called
    existing_coins,   \* its local existing_coins
    dlog,             \* what the loop did, in order
    \* ---- web_visualization/app.py
    wpc,              \* position of the app: "idle", "start", "serving"
    analysis_dir,     \* whether the analysis_results directory exists
    artifacts,        \* content of each artifact file of analysis_results
    handler,          \* the endpoint being served and how far its handler is
    reply,            \* the latest response of an endpoint
    escaped           \* an exception left a handler

mainVars == <<pc, stage, started, exits, results, completed, files, childExit, dl, loadFailed>>
alignVars == <<historical_data, combined_prices, combined_returns, alignCalls>>
corrVars == <<summary_df, corr_matrix, corr_in, avg_corr_df, uncorrelated_coins, identifyCalls>>
distVars == <<market_df, dist, comparison_data>>
analysisVars == <<returns_df, argsort_stable, apc, threshold, corrVars, distVars>>
retryVars == <<gpc, max_retries, initial_delay, retry_count, delay, requests, sleeps,
               last_sleep, response, failures, ret>>
loopVars == <<dpc, coins, idx, csv_files, start_files, existing_coins, dlog>>
netVars == <<retryVars, loopVars>>
webVars == <<wpc, analysis_dir, artifacts, handler, reply, escaped>>
vars == <<mainVars, alignVars, analysisVars, netVars, webVars>>

----------------------------------------------------------------------------
(* Floating point values: exact rationals n/d (d > 0, lowest terms) and    *)
(* the IEEE values NaN, +inf, -inf.                                        *)

RECURSIVE GCD(_, _)
GCD(a, b) == IF b = 0 THEN a ELSE GCD(b, a % b)

AbsInt(a) == IF a < 0 THEN -a ELSE a

NaN == [k |-> "nan", n |-> 0, d |-> 1]
PInf == [k |-> "pinf", n |-> 0, d |-> 1]
NInf == [k |-> "ninf", n |-> 0, d |-> 1]

Num(a, b) ==
    LET g == GCD(AbsInt(a), AbsInt(b))
        s == IF b < 0 THEN -1 ELSE 1
    IN [k |-> "num", n |-> (s * a) \div g, d |-> (s * b) \div g]

Zero == Num(0, 1)
One == Num(1, 1)

IsNaN(x) == x.k = "nan"
IsNum(x) == x.k = "num"
IsInf(x) == x.k \in {"pinf", "ninf"}

\* -1, 0 or 1; not used on NaN
Sgn(x) ==
    CASE x.k = "pinf" -> 1
      [] x.k = "ninf" -> -1
      [] OTHER -> IF x.n > 0 THEN 1 ELSE IF x.n < 0 THEN -1 ELSE 0

Signed(s) == IF s > 0 THEN PInf ELSE NInf

Neg(x) ==
    CASE x.k = "nan" -> NaN
      [] x.k = "pinf" -> NInf
      [] x.k = "ninf" -> PInf
      [] OTHER -> Num(-x.n, x.d)

Add(x, y) ==
    CASE IsNaN(x) \/ IsNaN(y) -> NaN
      [] IsNum(x) /\ IsNum(y) -> Num(x.n * y.d + y.n * x.d, x.d * y.d)
      [] IsInf(x) /\ IsInf(y) -> IF x.k = y.k THEN x ELSE NaN
      [] IsInf(x) -> x
      [] OTHER -> y

Sub(x, y) == Add(x, Neg(y))

Mul(x, y) ==
    CASE IsNaN(x) \/ IsNaN(y) -> NaN
      [] IsNum(x) /\ IsNum(y) -> Num(x.n * y.n, x.d * y.d)
      [] Sgn(x) = 0 \/ Sgn(y) = 0 -> NaN
      [] OTHER -> Signed(Sgn(x) * Sgn(y))

\* the divisors of the program are never negative zero
Div(x, y) ==
    CASE IsNaN(x) \/ IsNaN(y) -> NaN
      [] IsInf(x) /\ IsInf(y) -> NaN
      [] IsInf(x) -> Signed(Sgn(x) * (IF Sgn(y) < 0 THEN -1 ELSE 1))
      [] IsInf(y) -> Zero
      [] y.n = 0 -> IF x.n = 0 THEN NaN ELSE Signed(x.n)
      [] OTHER -> Num(x.n * y.d, x.d * y.n)

Abs(x) ==
    CASE x.k = "nan" -> NaN
      [] IsInf(x) -> PInf
      [] OTHER -> Num(AbsInt(x.n), x.d)

\* IEEE comparisons: every comparison with NaN is false
Lt(x, y) ==
    CASE IsNaN(x) \/ IsNaN(y) -> FALSE
      [] IsNum(x) /\ IsNum(y) -> x.n * y.d < y.n * x.d
      [] x.k = y.k -> FALSE
      [] OTHER -> x.k = "ninf" \/ y.k = "pinf"

Gt(x, y) == Lt(y, x)

Eq(x, y) == ~IsNaN(x) /\ ~IsNaN(y) /\ x = y

Le(x, y) == Lt(x, y) \/ Eq(x, y)

KeepNa(x) == x

\* Series.fillna(0)
FillNa0(x) == IF IsNaN(x) THEN Zero ELSE x

RECURSIVE SumSeq(_)
SumSeq(s) == IF s = <<>> THEN Zero ELSE Add(s[1], SumSeq(Tail(s)))

\* Series.mean() / DataFrame.mean(): skipna=True, NaN when nothing is left
MeanSkipNa(s) ==
    LET present == SelectSeq(s, LAMBDA x : ~IsNaN(x))
    IN IF present = <<>> THEN NaN
       ELSE Div(SumSeq(present), Num(Len(present), 1))

----------------------------------------------------------------------------
(* Values every variable holds while its component is not running.         *)

NoFrame == [date |-> <<>>, cols |-> <<>>, data |-> <<>>]
NoDist == [distance_df |-> <<>>, out_of_threshold |-> <<>>,
           cum_returns_df |-> NoFrame, market_cum_return |-> <<>>]
NoComparison == [dates |-> <<>>, market_avg |-> <<>>, coins |-> <<>>]

\* nothing computed yet by either analysis script
NoTables ==
    /\ summary_df = <<>> /\ corr_matrix = <<>> /\ avg_corr_df = <<>>
    /\ uncorrelated_coins = <<>> /\ identifyCalls = 0
    /\ market_df = <<>> /\ dist = NoDist /\ comparison_data = NoComparison

MainIdle ==
    /\ pc = "idle" /\ stage = 0 /\ started = <<>> /\ exits = <<>> /\ results = <<>>
    /\ completed = FALSE /\ files = {} /\ childExit = 0
    /\ dl = [ran |-> FALSE, symbols |-> {}] /\ loadFailed = {}

AlignIdle ==
    /\ historical_data = <<>> /\ combined_prices = NoFrame
    /\ combined_returns = NoFrame /\ alignCalls = 0

\* what get_with_retry returns, and its result while it has not returned
None == [k |-> "None"]
NoReturn == [k |-> "running"]
NoSleep == [jitter |-> Zero, time |-> Zero]
NoResponse == [status |-> "none", body |-> None, slept |-> FALSE]

RetryIdle ==
    /\ gpc = "idle" /\ max_retries = 0 /\ initial_delay = 0 /\ retry_count = 0
    /\ delay = 0 /\ requests = 0 /\ sleeps = 0 /\ last_sleep = NoSleep
    /\ response = NoResponse /\ failures = 0 /\ ret = NoReturn

LoopIdle ==
    /\ dpc = "idle" /\ coins = <<>> /\ idx = 0 /\ csv_files = {}
    /\ start_files = {} /\ existing_coins = {} /\ dlog = <<>>

\* the artifacts the dashboard reads
SampleFiles == {"comparison_data.json", "uncorrelated_coins.csv",
                "out_of_threshold_coins.csv", "average_returns.csv"}

NoHandler == [endpoint |-> "none", at |-> "idle"]
NoReply == [endpoint |-> "none", status |-> 0, body |-> "none"]

WebIdle ==
    /\ wpc = "idle" /\ analysis_dir = FALSE
    /\ artifacts = [f \in SampleFiles |-> "absent"]
    /\ handler = NoHandler /\ reply = NoReply /\ escaped = FALSE

NetIdle == RetryIdle /\ LoopIdle /\ WebIdle

AnalysisIdle ==
    /\ returns_df = NoFrame /\ apc = "idle" /\ threshold = NaN
    /\ argsort_stable = TRUE /\ corr_in = <<>> /\ NoTables

----------------------------------------------------------------------------
(* main.py                                                                 *)

Stages == << "fetch_top_coins.py", "download_historical_data.py",
             "analyze_correlations.py", "analyze_price_distance.py",
             "create_web_visualization.py" >>

Coins == {"BTC", "ETH"}
CombinedFiles == {"combined_prices.csv", "combined_returns.csv"}
CorrelationFiles == {"average_returns.csv", "correlation_matrix.csv",
                     "average_correlations.csv", "uncorrelated_coins.csv"}
DistanceFiles == {"market_average_returns.csv", "price_distance.csv",
                  "out_of_threshold_coins.csv", "comparison_data.json"}
WebFiles == {"index.html", "styles.css", "script.js", "app.py"}

\* subprocess.run(check=True) raises CalledProcessError on a non-zero exit
\* status; run_script turns that into False and anything else into True.
RunScriptAlwaysTrue(code) == TRUE
RunScriptResult(code) == code = 0

InitMain ==
    /\ pc = "main" /\ stage = 0 /\ started = <<>> /\ exits = <<>> /\ results = <<>>
    /\ completed = FALSE /\ childExit = 0
    /\ files \in SUBSET ({"top_coins.json"} \cup CombinedFiles)
    /\ dl = [ran |-> FALSE, symbols |-> {}] /\ loadFailed = {}
    /\ AlignIdle /\ AnalysisIdle /\ NetIdle

\* run_script up to subprocess.run: the child is spawned.
StartStage ==
    /\ pc = "main" /\ stage < Len(Stages)
    /\ started' = Append(started, Stages[stage + 1])
    /\ pc' = "child"
    /\ UNCHANGED <<stage, exits, results, completed, files, childExit, dl, loadFailed>>
    /\ UNCHANGED <<webVars, alignVars, analysisVars, netVars>>

Running(script) == pc = "child" /\ started[Len(started)] = script

ChildEnds(code) ==
    /\ childExit' = code
    /\ pc' = "exited"
    /\ UNCHANGED <<stage, started, exits, results, completed>>
    /\ UNCHANGED <<webVars, alignVars, analysisVars, netVars>>

\* fetch_top_coins.py: a RequestException is caught and reported, the script
\* still ends normally; any other exception (a KeyError on the selected
\* columns) ends it with a traceback before anything is written.
ChildFetchTopCoins ==
    /\ Running("fetch_top_coins.py")
    /\ \/ /\ files' = files \cup {"top_coins.csv", "top_coins.json"}
          /\ ChildEnds(0)
       \/ /\ files' = files
          /\ ChildEnds(0)
       \/ /\ files' = files
          /\ ChildEnds(1)
    /\ UNCHANGED <<dl, loadFailed>>

\* download_historical_data.py __main__: every "else" branch logs an error
\* and falls off the end of the script.
ChildDownload ==
    /\ Running("download_historical_data.py")
    /\ \/ /\ "top_coins.json" \notin files
          /\ files' = files /\ dl' = dl
          /\ ChildEnds(0)
       \/ /\ "top_coins.json" \in files
          /\ \E got \in SUBSET Coins :
                /\ dl' = [ran |-> TRUE, symbols |-> got]
                /\ files' = files \cup {s \o "_historical.csv" : s \in got}
                                  \cup (IF got # {} THEN CombinedFiles ELSE {})
          /\ ChildEnds(0)
       \/ /\ files' = files /\ dl' = dl
          /\ ChildEnds(1)
    /\ UNCHANGED loadFailed

\* analyze_correlations.py / analyze_price_distance.py __main__:
\* load_combined_data catches FileNotFoundError and returns (None, None).
ChildAnalysis(script, outputs) ==
    /\ Running(script)
    /\ \/ /\ ~(CombinedFiles \subseteq files)
          /\ loadFailed' = loadFailed \cup {script}
          /\ files' = files
          /\ ChildEnds(0)
       \/ /\ CombinedFiles \subseteq files
          /\ loadFailed' = loadFailed
          /\ files' = files \cup outputs
          /\ ChildEnds(0)
       \/ /\ loadFailed' = loadFailed
          /\ files' = files
          /\ ChildEnds(1)
    /\ UNCHANGED dl

ChildAnalyzeCorrelations == ChildAnalysis("analyze_correlations.py", CorrelationFiles)

ChildAnalyzePriceDistance == ChildAnalysis("analyze_price_distance.py", DistanceFiles)

ChildCreateWebVisualization ==
    /\ Running("create_web_visualization.py")
    /\ \/ /\ files' = files \cup WebFiles
          /\ ChildEnds(0)
       \/ /\ files' = files
          /\ ChildEnds(1)
    /\ UNCHANGED <<dl, loadFailed>>

\* run_script after subprocess.run, and the "if not run_script(...)" of main.
RunScriptReturns ==
    /\ pc = "exited"
    /\ exits' = Append(exits, childExit)
    /\ results' = Append(results, RunScriptResult(childExit))
    /\ IF RunScriptResult(childExit)
         THEN stage' = stage + 1 /\ pc' = "main"
         ELSE stage' = stage /\ pc' = "halted"
    /\ UNCHANGED <<started, completed, files, childExit, dl, loadFailed>>
    /\ UNCHANGED <<webVars, alignVars, analysisVars, netVars>>

MainCompleted ==
    /\ pc = "main" /\ stage = Len(Stages)
    /\ completed' = TRUE
    /\ pc' = "done"
    /\ UNCHANGED <<stage, started, exits, results, files, childExit, dl, loadFailed>>
    /\ UNCHANGED <<webVars, alignVars, analysisVars, netVars>>

NextMain ==
    \/ StartStage
    \/ ChildFetchTopCoins
    \/ ChildDownload
    \/ ChildAnalyzeCorrelations
    \/ ChildAnalyzePriceDistance
    \/ ChildCreateWebVisualization
    \/ RunScriptReturns
    \/ MainCompleted

SpecMain == InitMain /\ [][NextMain]_vars

(* ---- claims about main.py ---- *)

IsPrefix(s, t) == Len(s) <= Len(t) /\ \A i \in 1..Len(s) : s[i] = t[i]

StageIndex(script) == CHOOSE i \in 1..Len(Stages) : Stages[i] = script

\* C1: main() starts the five stages in the fixed order, each at most once;
\* a stage is started only after every earlier run_script returned True,
\* which it does exactly when that child's exit status was 0; once a
\* run_script returned False no later stage is started and the 'completed
\* successfully' message is not logged.
C1_FailFastOrder ==
    /\ IsPrefix(started, Stages)
    /\ Len(results) = Len(exits)
    /\ Len(results) <= Len(started) /\ Len(started) <= Len(results) + 1
    /\ \A j \in 1..Len(results) : results[j] = (exits[j] = 0)
    /\ \A i \in 1..Len(started) : \A j \in 1..(i - 1) : results[j] /\ exits[j] = 0
    /\ \A j \in 1..Len(results) : ~results[j] => Len(started) = j /\ ~completed
    /\ completed => Len(results) = Len(Stages)

\* two stages succeeded, the third child ended with a non-zero status and
\* main() has returned
C1_Witness ==
    /\ pc = "halted"
    /\ started = SubSeq(Stages, 1, 3)
    /\ exits = <<0, 0, 1>>
    /\ results = <<TRUE, TRUE, FALSE>>

\* C2: when the mapping produced for save_combined_data in the download
\* stage is empty, that stage fails (its run_script returns False) and no
\* downstream stage is started.
C2_EmptyMappingStopsPipeline ==
    (dl.ran /\ dl.symbols = {}) =>
        /\ Len(started) <= StageIndex("download_historical_data.py")
        /\ Len(results) >= StageIndex("download_historical_data.py")
              => ~results[StageIndex("download_historical_data.py")]

\* C3: when load_combined_data returns (None, None) in an analysis stage,
\* the stage is reported to main() as failed and no later stage is started.
C3_MissingTablesStopPipeline ==
    \A script \in loadFailed :
        /\ Len(started) <= StageIndex(script)
        /\ Len(results) >= StageIndex(script) => ~results[StageIndex(script)]


----------------------------------------------------------------------------
(* download_historical_data.py: get_with_retry                             *)

MAX_RETRIES == 5
INITIAL_RETRY_DELAY == 10
MAX_RETRY_DELAY == 120

\* requests.get calls followed within one call of get_with_retry
MaxRequests == 8

\* random.uniform(0.8, 1.2): both ends and the middle
Jitters == {Num(4, 5), One, Num(6, 5)}

\* number of price points of a JSON object answered with status 200
PricePoints == {0, 2}

\* bodies of a 200 response: the JSON value null or a JSON object
Bodies == {[k |-> "null"]} \cup [k : {"dict"}, prices : PricePoints]

\* response.json(): the JSON value null is Python's None
ResponseJson(body) == IF body.k = "null" THEN None ELSE body

\* statuses below 400 other than 200 (raise_for_status() returns), statuses
\* from 400 on other than 429 (raise_for_status() raises HTTPError), and a
\* requests.get that raises itself
OtherStatuses == {"204", "304"}
ErrorOutcomes == {"404", "500", "ConnectionError"}

MinF(x, y) == IF Lt(y, x) THEN y ELSE x

\* sleep_time = min(delay * jitter, MAX_RETRY_DELAY)
SleepTime(d, jitter) == MinF(Mul(Num(d, 1), jitter), Num(MAX_RETRY_DELAY, 1))

DelayKept(d) == d

\* delay *= 2
NextDelay(d) == d * 2

\* the call get_with_retry(url, params, max_retries, initial_delay) enters
\* its loop
EnterRetryLoop(retries, first_delay) ==
    /\ gpc' = "loop" /\ max_retries' = retries /\ initial_delay' = first_delay
    /\ retry_count' = 0 /\ delay' = first_delay
    /\ requests' = 0 /\ sleeps' = 0 /\ last_sleep' = NoSleep
    /\ response' = NoResponse /\ failures' = 0 /\ ret' = NoReturn

LoopConditionStrict == retry_count < max_retries

\* while retry_count <= max_retries
LoopCondition == retry_count <= max_retries

InLoop == gpc = "loop" /\ LoopCondition /\ requests < MaxRequests

\* time.sleep(sleep_time); delay *= 2
Backoff(jitter) ==
    /\ sleeps' = sleeps + 1
    /\ last_sleep' = [jitter |-> jitter, time |-> SleepTime(delay, jitter)]
    /\ delay' = NextDelay(delay)

\* status 200: return response.json()
Respond200 ==
    /\ InLoop
    /\ \E body \in Bodies :
          /\ response' = [status |-> "200", body |-> body, slept |-> FALSE]
          /\ ret' = ResponseJson(body)
    /\ requests' = requests + 1
    /\ gpc' = "returned"
    /\ UNCHANGED <<max_retries, initial_delay, retry_count, delay, sleeps, last_sleep, failures>>
    /\ UNCHANGED <<webVars, mainVars, alignVars, analysisVars, loopVars>>

\* status 429: count the retry, sleep, double the delay, loop
Respond429 ==
    /\ InLoop
    /\ requests' = requests + 1
    /\ retry_count' = retry_count + 1
    /\ failures' = failures + 1
    /\ response' = [status |-> "429", body |-> None, slept |-> TRUE]
    /\ \E jitter \in Jitters : Backoff(jitter)
    /\ UNCHANGED <<gpc, max_retries, initial_delay, ret>>
    /\ UNCHANGED <<webVars, mainVars, alignVars, analysisVars, loopVars>>

\* any other status below 400: raise_for_status() returns and the loop
\* goes round with nothing counted and no sleep
RespondOther ==
    /\ InLoop
    /\ requests' = requests + 1
    /\ \E status \in OtherStatuses :
          response' = [status |-> status, body |-> None, slept |-> FALSE]
    /\ UNCHANGED <<gpc, max_retries, initial_delay, retry_count, delay, sleeps,
                   last_sleep, failures, ret>>
    /\ UNCHANGED <<webVars, mainVars, alignVars, analysisVars, loopVars>>

\* requests.get or raise_for_status() raises a RequestException: count the
\* retry; return None when the retries are used up, else sleep, double the
\* delay, loop
RequestFails ==
    /\ InLoop
    /\ requests' = requests + 1
    /\ retry_count' = retry_count + 1
    /\ failures' = failures + 1
    /\ \E outcome \in ErrorOutcomes :
          IF retry_count + 1 > max_retries
            THEN /\ response' = [status |-> outcome, body |-> None, slept |-> FALSE]
                 /\ ret' = None /\ gpc' = "returned"
                 /\ UNCHANGED <<delay, sleeps, last_sleep>>
            ELSE /\ response' = [status |-> outcome, body |-> None, slept |-> TRUE]
                 /\ \E jitter \in Jitters : Backoff(jitter)
                 /\ UNCHANGED <<gpc, ret>>
    /\ UNCHANGED <<max_retries, initial_delay>>
    /\ UNCHANGED <<webVars, mainVars, alignVars, analysisVars, loopVars>>

\* the loop condition fails: return None (line 110)
RetriesExhausted ==
    /\ gpc = "loop" /\ ~LoopCondition
    /\ ret' = None /\ gpc' = "returned"
    /\ UNCHANGED <<max_retries, initial_delay, retry_count, delay, requests, sleeps,
                   last_sleep, response, failures>>
    /\ UNCHANGED <<webVars, mainVars, alignVars, analysisVars, loopVars>>

GetWithRetry ==
    \/ Respond200
    \/ Respond429
    \/ RespondOther
    \/ RequestFails
    \/ RetriesExhausted

InitRetry ==
    /\ gpc = "loop"
    /\ max_retries \in 0..MAX_RETRIES
    /\ initial_delay = INITIAL_RETRY_DELAY
    /\ retry_count = 0 /\ delay = initial_delay
    /\ requests = 0 /\ sleeps = 0 /\ last_sleep = NoSleep
    /\ response = NoResponse /\ failures = 0 /\ ret = NoReturn
    /\ MainIdle /\ AlignIdle /\ AnalysisIdle /\ LoopIdle /\ WebIdle

NextRetry == GetWithRetry

SpecRetry == InitRetry /\ [][NextRetry]_vars

(* ---- claims about get_with_retry ---- *)

\* C22: get_with_retry issues at most max_retries + 1 HTTP requests before
\* returning, for every sequence of responses and exceptions, also when the
\* server keeps answering with a status such as 204 or 304; a call that
\* terminates on every such sequence cannot make more requests than that.
C22_AtMostMaxRetriesPlusOneRequests ==
    requests <= max_retries + 1

RECURSIVE Pow2(_)
Pow2(k) == IF k = 0 THEN 1 ELSE 2 * Pow2(k - 1)

\* C24: the k-th sleep of a call lasts
\* min(initial_delay * 2^(k-1) * jitter, MAX_RETRY_DELAY) with jitter in
\* [0.8, 1.2], whether the failures before it were 429 responses or
\* request exceptions; no sleep is longer than MAX_RETRY_DELAY.
C24_KthSleepCappedBackoff ==
    sleeps >= 1 =>
        /\ Le(Num(4, 5), last_sleep.jitter) /\ Le(last_sleep.jitter, Num(6, 5))
        /\ last_sleep.time =
              MinF(Mul(Num(initial_delay * Pow2(sleeps - 1), 1), last_sleep.jitter),
                   Num(MAX_RETRY_DELAY, 1))
        /\ Le(last_sleep.time, Num(MAX_RETRY_DELAY, 1))

\* the fourth sleep, after an exception, with jitter 1.2 lasts 96 seconds
C24_Witness ==
    /\ sleeps = 4 /\ response.status = "ConnectionError" /\ response.slept
    /\ last_sleep = [jitter |-> Num(6, 5), time |-> Num(96, 1)]


----------------------------------------------------------------------------
(* download_historical_data.py: save_combined_data                         *)

MaxCoins == 3
MaxRows == 5
MaxCalls == 2

SymbolNames == <<"A", "B", "C", "D", "E", "F">>
StartDates == {1, 2}
Shapes == [start : StartDates, len : 0..MaxRows]

\* Series.pct_change(): undefined on the first row
PctChange(price) ==
    [i \in 1..Len(price) |->
        IF i = 1 THEN NaN ELSE Sub(Div(price[i], price[i - 1]), One)]

\* the DataFrame the downloader builds for the i-th coin (lines 177-198):
\* daily dates from a first day on, the coin's own prices, their returns
MakeFrame(i, shape) ==
    LET price == [r \in 1..shape.len |-> Num(100 * i + r - 1, 1)]
    IN [date |-> [r \in 1..shape.len |-> shape.start + r - 1],
        price |-> price,
        daily_return |-> PctChange(price)]

\* the mapping built from one shape per coin, keyed in iteration order
MakeMapping(shapes) ==
    [i \in 1..Len(shapes) |-> [symbol |-> SymbolNames[i], df |-> MakeFrame(i, shapes[i])]]

FrameLen(df) == Len(df.date)

\* len(df) == len(combined_df)
RowCountAtLeast(df, rows) == FrameLen(df) >= rows
RowCountMatches(df, rows) == FrameLen(df) = rows

HasColumn(df, name) == name \in DOMAIN df

Symbols(entries) == [i \in 1..Len(entries) |-> entries[i].symbol]

EntryOf(hd, sym) == CHOOSE e \in {hd[i] : i \in 1..Len(hd)} : e.symbol = sym

CombineColumnAppending(hd, column) ==
    LET first == hd[1].df
        rows == Len(first.date)
        kept == SelectSeq(hd, LAMBDA e :
                    /\ RowCountMatches(e.df, rows)
                    /\ (column = "daily_return" => HasColumn(e.df, "daily_return")))
    IN [date |-> combined_prices.date \o first.date,
        cols |-> Symbols(kept),
        data |-> [s \in {kept[i].symbol : i \in 1..Len(kept)} |->
                    EntryOf(hd, s).df[column]]]

\* the assets whose dates are those of the first asset
CombineColumnSameDates(hd, column) ==
    LET first == hd[1].df
        kept == SelectSeq(hd, LAMBDA e : e.df.date = first.date)
    IN [date |-> first.date,
        cols |-> Symbols(kept),
        data |-> [s \in {kept[i].symbol : i \in 1..Len(kept)} |->
                    EntryOf(hd, s).df[column]]]

\* lines 279-287 (column "price") and 294-299 (column "daily_return")
CombineColumn(hd, column) ==
    LET first == hd[1].df
        rows == Len(first.date)
        kept == SelectSeq(hd, LAMBDA e :
                    /\ RowCountMatches(e.df, rows)
                    /\ (column = "daily_return" => HasColumn(e.df, "daily_return")))
    IN [date |-> first.date,
        cols |-> Symbols(kept),
        data |-> [s \in {kept[i].symbol : i \in 1..Len(kept)} |->
                    EntryOf(hd, s).df[column]]]

InitAlign ==
    /\ \E n \in 0..MaxCoins : \E shapes \in [1..n -> Shapes] :
          historical_data = MakeMapping(shapes)
    /\ combined_prices = NoFrame /\ combined_returns = NoFrame
    /\ alignCalls = 0
    /\ MainIdle /\ AnalysisIdle /\ NetIdle

\* save_combined_data(historical_data): nothing is written for an empty mapping
SaveCombinedData ==
    /\ alignCalls < MaxCalls
    /\ alignCalls' = alignCalls + 1
    /\ IF historical_data = <<>>
         THEN UNCHANGED <<combined_prices, combined_returns>>
         ELSE /\ combined_prices' = CombineColumn(historical_data, "price")
              /\ combined_returns' = CombineColumn(historical_data, "daily_return")
    /\ UNCHANGED historical_data
    /\ UNCHANGED <<webVars, mainVars, analysisVars, netVars>>

NextAlign == SaveCombinedData

SpecAlign == InitAlign /\ [][NextAlign]_vars

(* ---- claims about save_combined_data ---- *)

InFrame(frame, sym) == \E i \in 1..Len(frame.cols) : frame.cols[i] = sym

\* C4: for every non-empty mapping and every asset in it, the asset has a
\* column in the aligned price matrix and in the aligned return matrix if
\* and only if its row count equals the row count of the first asset; the
\* call completes for every mapping (no error is raised).
C4_IncludedIffSameRowCount ==
    /\ alignCalls = 0 => ENABLED SaveCombinedData
    /\ (alignCalls >= 1 /\ historical_data # <<>>) =>
          \A i \in 1..Len(historical_data) :
              LET e == historical_data[i]
                  same == FrameLen(e.df) = FrameLen(historical_data[1].df)
              IN /\ InFrame(combined_prices, e.symbol) <=> same
                 /\ InFrame(combined_returns, e.symbol) <=> same

\* an asset with one row less than the reference axis was left out of both
\* matrices while an asset of the reference length was kept
C4_Witness ==
    /\ alignCalls >= 1
    /\ Len(historical_data) = 3
    /\ FrameLen(historical_data[1].df) = MaxRows
    /\ FrameLen(historical_data[2].df) = MaxRows - 1
    /\ FrameLen(historical_data[3].df) = MaxRows
    /\ combined_prices.cols = <<"A", "C">>
    /\ combined_returns.cols = <<"A", "C">>

C30_ReferenceAxisByRowCountOnly ==
    (alignCalls >= 1 /\ historical_data # <<>>) =>
        LET first == historical_data[1]
        IN /\ combined_prices.date = first.df.date
           /\ combined_returns.date = first.df.date
           /\ InFrame(combined_prices, first.symbol)
           /\ InFrame(combined_returns, first.symbol)
           /\ \A i \in 1..Len(historical_data) :
                 LET e == historical_data[i]
                 IN FrameLen(e.df) = FrameLen(first.df) =>
                       /\ InFrame(combined_prices, e.symbol)
                       /\ InFrame(combined_returns, e.symbol)
                       /\ \A t \in 1..FrameLen(first.df) :
                             /\ combined_prices.data[e.symbol][t] = e.df.price[t]
                             /\ combined_returns.data[e.symbol][t] = e.df.daily_return[t]

\* the second asset has two rows like the first but starts a day later: it
\* is a column of both matrices, under the dates of the first asset
C30_Witness ==
    /\ alignCalls >= 1
    /\ Len(historical_data) = 2
    /\ historical_data[1].df.date = <<1, 2>>
    /\ historical_data[2].df.date = <<2, 3>>
    /\ combined_prices.date = <<1, 2>>
    /\ combined_prices.cols = <<"A", "B">>
    /\ combined_returns.cols = <<"A", "B">>
    /\ combined_prices.data["B"] = historical_data[2].df.price

----------------------------------------------------------------------------
(* download_historical_data.py: download_historical_data_coingecko         *)

MaxDlCoins == 2

\* A symbol or a file name is the sequence of the parts that its
\* underscores separate: <<"A", "B">> is "A_B".
DlSymbols == { <<"A">>, <<"A", "B">> }

\* f"{symbol}_historical.csv"
FileName(symbol) == symbol \o <<"historical.csv">>

\* glob("*_historical.csv")
GlobHistorical(names) ==
    {f \in names : Len(f) >= 2 /\ f[Len(f)] = "historical.csv"}

\* file.name.split("_")[0]
SymbolOfFile(name) == <<name[1]>>

\* existing_coins (lines 128-132)
ExistingCoins(names) == {SymbolOfFile(f) : f \in GlobHistorical(names)}

\* historical_data[symbol] = df
DictSet(hd, symbol, df) ==
    IF \E i \in 1..Len(hd) : hd[i].symbol = symbol
      THEN [i \in 1..Len(hd) |->
               IF hd[i].symbol = symbol THEN [symbol |-> symbol, df |-> df] ELSE hd[i]]
      ELSE Append(hd, [symbol |-> symbol, df |-> df])

Logged(kind) == Append(dlog, [kind |-> kind, coin |-> idx])

NoSleepBetween(entries) == entries

\* time.sleep(random.uniform(3.0, 5.0)) (lines 213-216)
InterRequestSleep(entries) == Append(entries, [kind |-> "sleep", coin |-> idx])

StoreUnlessNone(data) == data # None

\* what get_with_retry handed back: None, a JSON object without prices, a
\* JSON object with prices
Outcome(data) ==
    IF data = None THEN "failed"
    ELSE IF data.prices = 0 THEN "no_prices" ELSE "prices"

\* if data: ... if prices: (lines 170-179)
HasPrices(data) == data # None /\ data.prices > 0

InitDownload ==
    /\ \E n \in 1..MaxDlCoins : coins \in [1..n -> DlSymbols]
    /\ csv_files \in SUBSET {FileName(sym) : sym \in DlSymbols}
    /\ start_files = csv_files
    /\ existing_coins = ExistingCoins(csv_files)
    /\ historical_data = <<>>
    /\ dpc = "next" /\ idx = 1 /\ dlog = <<>>
    /\ combined_prices = NoFrame /\ combined_returns = NoFrame /\ alignCalls = 0
    /\ MainIdle /\ AnalysisIdle /\ RetryIdle /\ WebIdle

AtCoin == dpc = "next" /\ idx <= Len(coins)

\* symbol in existing_coins: read the coin's file, log an error if that
\* raises, continue (lines 142-155)
LoadExistingCoin ==
    /\ AtCoin /\ coins[idx] \in existing_coins
    /\ \/ /\ FileName(coins[idx]) \in csv_files
          /\ \E rows \in PricePoints :
                historical_data' = DictSet(historical_data, coins[idx],
                                           MakeFrame(idx, [start |-> 1, len |-> rows]))
          /\ dlog' = Logged("loaded")
       \/ /\ UNCHANGED historical_data
          /\ dlog' = Logged("load_failed")
    /\ idx' = idx + 1
    /\ UNCHANGED <<dpc, coins, csv_files, start_files, existing_coins>>
    /\ UNCHANGED <<combined_prices, combined_returns, alignCalls>>
    /\ UNCHANGED <<webVars, mainVars, analysisVars, retryVars>>

\* data = get_with_retry(url, params): the call starts (line 168)
StartFetch ==
    /\ AtCoin /\ coins[idx] \notin existing_coins
    /\ EnterRetryLoop(MAX_RETRIES, INITIAL_RETRY_DELAY)
    /\ dpc' = "fetching"
    /\ dlog' = Logged("fetch")
    /\ UNCHANGED <<coins, idx, csv_files, start_files, existing_coins>>
    /\ UNCHANGED <<webVars, mainVars, alignVars, analysisVars>>

\* get_with_retry has returned: store and save the series if there are
\* prices, else log; then sleep and go to the next coin (lines 170-216)
FinishFetch ==
    /\ dpc = "fetching" /\ gpc = "returned"
    /\ IF HasPrices(ret)
         THEN /\ historical_data' = DictSet(historical_data, coins[idx],
                                            MakeFrame(idx, [start |-> 1, len |-> ret.prices]))
              /\ csv_files' = csv_files \cup {FileName(coins[idx])}
         ELSE UNCHANGED <<historical_data, csv_files>>
    /\ dlog' = InterRequestSleep(Logged(Outcome(ret)))
    /\ idx' = idx + 1 /\ dpc' = "next"
    /\ gpc' = "idle" /\ max_retries' = 0 /\ initial_delay' = 0 /\ retry_count' = 0
    /\ delay' = 0 /\ requests' = 0 /\ sleeps' = 0 /\ last_sleep' = NoSleep
    /\ response' = NoResponse /\ failures' = 0 /\ ret' = NoReturn
    /\ UNCHANGED <<coins, start_files, existing_coins>>
    /\ UNCHANGED <<combined_prices, combined_returns, alignCalls>>
    /\ UNCHANGED <<webVars, mainVars, analysisVars>>

\* return historical_data (line 218)
ReturnHistoricalData ==
    /\ dpc = "next" /\ idx > Len(coins)
    /\ dpc' = "done"
    /\ UNCHANGED <<coins, idx, csv_files, start_files, existing_coins, dlog>>
    /\ UNCHANGED <<webVars, mainVars, alignVars, analysisVars, retryVars>>

NextDownload ==
    \/ LoadExistingCoin
    \/ StartFetch
    \/ Respond200
    \/ Respond429
    \/ RespondOther
    \/ RequestFails
    \/ RetriesExhausted
    \/ FinishFetch
    \/ ReturnHistoricalData

SpecDownload == InitDownload /\ [][NextDownload]_vars

(* ---- claims about download_historical_data_coingecko ---- *)

\* what the loop logged for the i-th coin
Kinds(i) == {dlog[j].kind : j \in {k \in 1..Len(dlog) : dlog[k].coin = i}}

MappedSymbols == {historical_data[i].symbol : i \in 1..Len(historical_data)}

\* C25: for every coin whose <SYMBOL>_historical.csv existed when the
\* function was called no network request is made: the loop reads the file,
\* and when reading it fails the coin is left out of the mapping and is not
\* downloaded.
C25_ExistingFileNeverRequested ==
    \A i \in 1..Len(coins) :
        FileName(coins[i]) \in start_files =>
            /\ "fetch" \notin Kinds(i)
            /\ ~(dpc = "fetching" /\ idx = i /\ requests > 0)
            /\ i < idx => Kinds(i) \in {{"loaded"}, {"load_failed"}}
            /\ (\A j \in 1..Len(coins) : coins[j] = coins[i] => Kinds(j) = {"load_failed"})
                  => coins[i] \notin MappedSymbols

\* C26: after every coin for which a fetch was attempted, whether it gave
\* prices, no prices or failed, the loop sleeps before it goes on: between
\* the fetches of two coins lies the sleep that follows the first.
C26_SleepBetweenFetches ==
    /\ \A i \in 1..Len(dlog) : \A j \in (i + 1)..Len(dlog) :
          (dlog[i].kind = "fetch" /\ dlog[j].kind = "fetch") =>
              \E k \in (i + 1)..(j - 1) :
                  dlog[k].kind = "sleep" /\ dlog[k].coin = dlog[i].coin
    /\ \A i \in 1..Len(dlog) :
          (dlog[i].kind = "fetch" /\ idx > dlog[i].coin) =>
              /\ i + 2 <= Len(dlog)
              /\ dlog[i + 1].kind \in {"prices", "no_prices", "failed"}
              /\ dlog[i + 2] = [kind |-> "sleep", coin |-> dlog[i].coin]

\* the fetch of the first coin failed after its retries, the loop slept and
\* has started the fetch of the second coin
C26_Witness ==
    /\ Len(dlog) = 4 /\ dpc = "fetching" /\ idx = 2 /\ requests = 1
    /\ dlog[1].kind = "fetch" /\ dlog[2].kind = "failed"
    /\ dlog[3].kind = "sleep" /\ dlog[4].kind = "fetch"

\* C27: a coin whose fetch gave None or no prices is not in the mapping
\* and the loop goes on to every remaining coin; the mapping holds exactly
\* the symbols read from disk or fetched with prices.
C27_FailedCoinsOmittedLoopGoesOn ==
    /\ MappedSymbols =
          {coins[i] : i \in {j \in 1..Len(coins) : Kinds(j) \cap {"loaded", "prices"} # {}}}
    /\ \A i \in 1..Len(coins) :
          i < idx => Kinds(i) \cap {"loaded", "load_failed", "prices", "no_prices", "failed"} # {}
    /\ dpc = "done" => idx = Len(coins) + 1

\* the fetch of the first coin gave None, the fetch of the second coin gave
\* prices; the function has returned a mapping with the second coin only
C27_Witness ==
    /\ dpc = "done" /\ Len(coins) = 2
    /\ "failed" \in Kinds(1) /\ "prices" \in Kinds(2)
    /\ MappedSymbols = {coins[2]}

----------------------------------------------------------------------------
(* Helpers shared by the analysis scripts                                  *)

RECURSIVE Reverse(_)
Reverse(s) == IF s = <<>> THEN <<>> ELSE Append(Reverse(Tail(s)), s[1])

\* x goes behind every row whose key is not above its own
RECURSIVE InsertByKey(_, _, _)
InsertByKey(sorted, x, key) ==
    IF sorted = <<>> THEN <<x>>
    ELSE IF Lt(x[key], sorted[1][key]) THEN <<x>> \o sorted
    ELSE <<sorted[1]>> \o InsertByKey(Tail(sorted), x, key)

\* x goes in front of every row whose key is not below its own
RECURSIVE InsertBeforeEqual(_, _, _)
InsertBeforeEqual(sorted, x, key) ==
    IF sorted = <<>> THEN <<x>>
    ELSE IF ~Lt(sorted[1][key], x[key]) THEN <<x>> \o sorted
    ELSE <<sorted[1]>> \o InsertBeforeEqual(Tail(sorted), x, key)

\* ndarray.argsort(kind='quicksort'): ascending by key. numpy sorts a table
\* of up to 16 rows by insertion, which keeps equal keys in their order; on
\* a longer table (the pipeline ranks up to 100 coins) its introsort
\* partitioning moves equal keys past each other. The small tables of the
\* model stand for both: argsort_stable tells which of the two this run
\* shows, and the same table always comes out in the same order.
RECURSIVE ArgSortAsc(_, _)
ArgSortAsc(rows, key) ==
    IF rows = <<>> THEN <<>>
    ELSE LET front == ArgSortAsc(SubSeq(rows, 1, Len(rows) - 1), key)
         IN IF argsort_stable THEN InsertByKey(front, rows[Len(rows)], key)
            ELSE InsertBeforeEqual(front, rows[Len(rows)], key)

KeepOrder(rows, key, ascending) == rows

DropNaRows(rows, key, ascending) ==
    LET present == SelectSeq(rows, LAMBDA r : ~IsNaN(r[key]))
    IN IF ascending THEN ArgSortAsc(present, key)
       ELSE Reverse(ArgSortAsc(Reverse(present), key))

\* DataFrame.sort_values(key, ascending), kind='quicksort': rows with a NaN
\* key go last, in their order; the others are argsorted, for a descending
\* sort on the reversed table with the outcome reversed again (pandas
\* nargsort)
SortValues(rows, key, ascending) ==
    LET present == SelectSeq(rows, LAMBDA r : ~IsNaN(r[key]))
        missing == SelectSeq(rows, LAMBDA r : IsNaN(r[key]))
    IN IF ascending THEN ArgSortAsc(present, key) \o missing
       ELSE Reverse(ArgSortAsc(Reverse(present), key)) \o missing

MaskReversed(table, mask) ==
    LET picked == SelectSeq([i \in 1..Len(table) |-> i], LAMBDA i : mask[i])
    IN [k \in 1..Len(picked) |-> table[picked[Len(picked) + 1 - k]]]

\* df[mask]: the rows whose mask entry is True, in their order
BooleanIndex(table, mask) ==
    LET picked == SelectSeq([i \in 1..Len(table) |-> i], LAMBDA i : mask[i])
    IN [k \in 1..Len(picked) |-> table[picked[k]]]

\* the cells of row t, in column order
RowOf(frame, t) == [i \in 1..Len(frame.cols) |-> frame.data[frame.cols[i]][t]]

NumRows(frame) == Len(frame.date)

\* the aligned return matrix with the given cells: cells[i][t] is the
\* return of the i-th asset on day t
MakeReturns(cells) ==
    LET n == Len(cells)
        t == IF n = 0 THEN 0 ELSE Len(cells[1])
    IN [date |-> [r \in 1..t |-> r],
        cols |-> [i \in 1..n |-> SymbolNames[i]],
        data |-> [sym \in {SymbolNames[i] : i \in 1..n} |->
                    cells[CHOOSE i \in 1..n : SymbolNames[i] = sym]]]

----------------------------------------------------------------------------
(* analyze_price_distance.py                                               *)

DistAssets == 2
DistDays == 2

DistReturns == {NaN, Num(-3, 10), Num(3, 10)}

DefaultThreshold == Num(3, 10)
Thresholds == {Zero, DefaultThreshold, Num(51, 100)}

\* Series.cumprod() of a series without NaN
RECURSIVE CumProd(_)
CumProd(s) ==
    IF s = <<>> THEN <<>>
    ELSE LET front == CumProd(SubSeq(s, 1, Len(s) - 1))
         IN IF front = <<>> THEN <<s[1]>>
            ELSE Append(front, Mul(front[Len(front)], s[Len(s)]))

\* (1 + series.fillna(0)).cumprod() - 1
Cumulative(series) ==
    LET filled == [i \in 1..Len(series) |-> FillNa0(series[i])]
        growth == [i \in 1..Len(series) |-> Add(One, filled[i])]
        prod == CumProd(growth)
    IN [i \in 1..Len(series) |-> Sub(prod[i], One)]

MeanNaAsZero(s) ==
    Div(SumSeq([i \in 1..Len(s) |-> FillNa0(s[i])]), Num(Len(s), 1))

\* returns_only.mean(axis=1)
RowMean(cells) == MeanSkipNa(cells)

\* calculate_market_average(returns_df)
MarketAverage(frame) ==
    [date |-> frame.date,
     market_avg_return |-> [t \in 1..NumRows(frame) |-> RowMean(RowOf(frame, t))]]

AtLeastThreshold(value, th) == Gt(value, th) \/ Eq(value, th)

\* distance_df['price_distance'] > threshold
AboveThreshold(value, th) == Gt(value, th)

\* calculate_price_distance(returns_df, market_avg_df, threshold)
PriceDistance(frame, market, th) ==
    LET last == NumRows(frame)
        cum == [sym \in DOMAIN frame.data |-> Cumulative(frame.data[sym])]
        market_cum == Cumulative(market.market_avg_return)
        final_market == market_cum[last]
        row(sym) ==
            LET distance == Abs(Sub(cum[sym][last], final_market))
            IN [symbol |-> sym,
                cumulative_return |-> cum[sym][last],
                price_distance |-> distance,
                market_return |-> final_market,
                relative_distance |-> Div(distance, Abs(final_market))]
        table == SortValues([i \in 1..Len(frame.cols) |-> row(frame.cols[i])],
                            "price_distance", FALSE)
    IN [distance_df |-> table,
        out_of_threshold |->
            BooleanIndex(table, [i \in 1..Len(table) |->
                                    AboveThreshold(table[i].price_distance, th)]),
        cum_returns_df |-> [date |-> frame.date, cols |-> frame.cols, data |-> cum],
        market_cum_return |-> market_cum]

InitDist ==
    /\ \E n \in 1..DistAssets : \E t \in 1..DistDays :
          \E cells \in [1..n -> [1..t -> DistReturns]] :
              returns_df = MakeReturns(cells)
    /\ apc = "loaded" /\ threshold = DefaultThreshold
    /\ argsort_stable \in BOOLEAN /\ corr_in = <<>> /\ NoTables
    /\ MainIdle /\ AlignIdle /\ NetIdle

CalculateMarketAverage ==
    /\ apc = "loaded"
    /\ market_df' = MarketAverage(returns_df)
    /\ apc' = "market"
    /\ UNCHANGED <<returns_df, argsort_stable, threshold, dist, comparison_data, corrVars>>
    /\ UNCHANGED <<webVars, mainVars, alignVars, netVars>>

CalculatePriceDistance ==
    /\ apc = "market"
    /\ \E th \in Thresholds :
          /\ threshold' = th
          /\ dist' = PriceDistance(returns_df, market_df, th)
    /\ apc' = "distance"
    /\ UNCHANGED <<returns_df, argsort_stable, market_df, comparison_data, corrVars>>
    /\ UNCHANGED <<webVars, mainVars, alignVars, netVars>>

NextDist ==
    \/ CalculateMarketAverage
    \/ CalculatePriceDistance

SpecDist == InitDist /\ [][NextDist]_vars

(* ---- claims about analyze_price_distance.py ---- *)

RowSet(table) == {table[i] : i \in 1..Len(table)}

SymbolsIn(table) == {table[i].symbol : i \in 1..Len(table)}

Last(series) == series[Len(series)]

\* C8: for every threshold, out_of_threshold holds exactly the assets whose
\* absolute price distance |final cumulative return - final market
\* cumulative return| is strictly above the threshold; an asset whose
\* distance equals the threshold is left out.
C8_OutOfThresholdStrictlyAbove ==
    apc = "distance" =>
        /\ RowSet(dist.out_of_threshold) \subseteq RowSet(dist.distance_df)
        /\ \A r \in RowSet(dist.distance_df) :
              /\ r.price_distance =
                    Abs(Sub(Last(dist.cum_returns_df.data[r.symbol]),
                            Last(dist.market_cum_return)))
              /\ (r \in RowSet(dist.out_of_threshold)) <=> Lt(threshold, r.price_distance)
              /\ r.price_distance = threshold => r \notin RowSet(dist.out_of_threshold)
        /\ SymbolsIn(dist.distance_df) = DOMAIN returns_df.data

\* one asset sits exactly on the threshold and is left out, another one is
\* above it and selected
C8_Witness ==
    /\ apc = "distance"
    /\ dist.out_of_threshold # <<>>
    /\ \E r \in RowSet(dist.distance_df) :
          r.price_distance = threshold /\ r \notin RowSet(dist.out_of_threshold)

RECURSIVE SumCells(_, _, _)
SumCells(frame, syms, t) ==
    IF syms = {} THEN Zero
    ELSE LET sym == CHOOSE x \in syms : TRUE
         IN Add(frame.data[sym][t], SumCells(frame, syms \ {sym}, t))

\* C9: for every date the market return is the arithmetic mean of the
\* returns of exactly the assets that have a return on that date; missing
\* returns count neither in the sum nor in the number of values.
C9_MarketMeanOverPresent ==
    apc \in {"market", "distance"} =>
        /\ market_df.date = returns_df.date
        /\ \A t \in 1..NumRows(returns_df) :
              LET present == {sym \in DOMAIN returns_df.data :
                                 ~IsNaN(returns_df.data[sym][t])}
                  m == market_df.market_avg_return[t]
              IN IF present = {} THEN IsNaN(m)
                 ELSE /\ IsNum(m)
                      /\ Mul(m, Num(Cardinality(present), 1)) =
                            SumCells(returns_df, present, t)

\* a day on which one asset returned 0.3 and the other has no return: the
\* market return is 0.3, not 0.15
C9_Witness ==
    /\ apc = "market"
    /\ returns_df.cols = <<"A", "B">>
    /\ returns_df.data["A"][1] = Num(3, 10)
    /\ IsNaN(returns_df.data["B"][1])
    /\ market_df.market_avg_return[1] = Num(3, 10)

Factor(x) == IF IsNaN(x) THEN One ELSE Add(One, x)

RECURSIVE Compound(_, _)
Compound(series, t) ==
    IF t = 0 THEN One ELSE Mul(Compound(series, t - 1), Factor(series[t]))

\* C10: for every asset and for the market series, the cumulative series at
\* every index t is the product over i <= t of (1 + r_i), minus 1, where a
\* missing r_i (also a market day on which every asset is missing)
\* contributes the factor 1.
C10_CumulativeIsCompoundedProduct ==
    apc = "distance" =>
        /\ \A sym \in DOMAIN returns_df.data : \A t \in 1..NumRows(returns_df) :
              dist.cum_returns_df.data[sym][t] =
                  Sub(Compound(returns_df.data[sym], t), One)
        /\ \A t \in 1..NumRows(returns_df) :
              dist.market_cum_return[t] =
                  Sub(Compound(market_df.market_avg_return, t), One)

\* asset A has no missing return (0.3, 0.3 compounds to 0.69); asset B misses
\* its second day and keeps its first day's value
C10_Witness ==
    /\ apc = "distance"
    /\ returns_df.cols = <<"A", "B">>
    /\ returns_df.data["A"] = <<Num(3, 10), Num(3, 10)>>
    /\ returns_df.data["B"] = <<Num(-3, 10), NaN>>
    /\ dist.cum_returns_df.data["A"] = <<Num(3, 10), Num(69, 100)>>
    /\ dist.cum_returns_df.data["B"] = <<Num(-3, 10), Num(-3, 10)>>

\* C11: every row of the divergence table has price_distance = |final asset
\* cumulative return - final market cumulative return| and
\* relative_distance = price_distance / |final market cumulative return|;
\* when the final market cumulative return is exactly 0 the relative
\* distance of every asset is NaN, never an infinite or a finite number.
C11_RelativeDistanceUndefinedAtZeroMarket ==
    apc = "distance" =>
        \A r \in RowSet(dist.distance_df) :
            LET final_market == Last(dist.market_cum_return)
            IN /\ r.cumulative_return = Last(dist.cum_returns_df.data[r.symbol])
               /\ r.market_return = final_market
               /\ r.price_distance = Abs(Sub(r.cumulative_return, final_market))
               /\ IF final_market = Zero THEN IsNaN(r.relative_distance)
                  ELSE r.relative_distance =
                           Div(r.price_distance, Abs(final_market))

\* C17: the divergence table is ordered descending by absolute price
\* distance: the price_distance of every row is >= that of the row after it.
C17_DistanceDescending ==
    apc = "distance" =>
        \A i \in 1..(Len(dist.distance_df) - 1) :
            Le(dist.distance_df[i + 1].price_distance, dist.distance_df[i].price_distance)

\* asset B, second in the matrix, is further from the market than asset A
\* and is the first row of the table
C17_Witness ==
    /\ apc = "distance"
    /\ returns_df.cols = <<"A", "B">>
    /\ Len(dist.distance_df) = 2
    /\ dist.distance_df[1].symbol = "B"
    /\ Lt(dist.distance_df[2].price_distance, dist.distance_df[1].price_distance)


----------------------------------------------------------------------------
(* analyze_correlations.py                                                 *)

CorrAssets == 2
CorrDays == 2

CorrReturns == {NaN, Zero, Num(1, 10)}

\* A Pearson coefficient cov / sqrt(ssx * ssy) is kept exactly as its sign
\* and its square.
CorrNaN == [k |-> "nan", sign |-> 0, sq |-> Zero]
CorrOne == [k |-> "num", sign |-> 1, sq |-> One]

\* one cell of DataFrame.corr() (method pearson, min_periods 1): the
\* coefficient over the rows on which both columns hold a value; NaN when
\* there is no such row or when either column does not vary over them
PairCorr(x, y) ==
    LET both == SelectSeq([t \in 1..Len(x) |-> [x |-> x[t], y |-> y[t]]],
                          LAMBDA c : ~IsNaN(c.x) /\ ~IsNaN(c.y))
        nobs == Len(both)
        meanx == Div(SumSeq([i \in 1..nobs |-> both[i].x]), Num(nobs, 1))
        meany == Div(SumSeq([i \in 1..nobs |-> both[i].y]), Num(nobs, 1))
        dx == [i \in 1..nobs |-> Sub(both[i].x, meanx)]
        dy == [i \in 1..nobs |-> Sub(both[i].y, meany)]
        ssx == SumSeq([i \in 1..nobs |-> Mul(dx[i], dx[i])])
        ssy == SumSeq([i \in 1..nobs |-> Mul(dy[i], dy[i])])
        cov == SumSeq([i \in 1..nobs |-> Mul(dx[i], dy[i])])
        div2 == Mul(ssx, ssy)
    IN IF nobs < 1 THEN CorrNaN
       ELSE IF div2 = Zero THEN CorrNaN
       ELSE [k |-> "num", sign |-> Sgn(cov), sq |-> Div(Mul(cov, cov), div2)]

IndexOf(cols, sym) == CHOOSE i \in 1..Len(cols) : cols[i] = sym

\* the matrix with every undefined coefficient stored as 0
CorrMatrixNaAsZero(frame) ==
    [a \in DOMAIN frame.data |-> [b \in DOMAIN frame.data |->
        LET c == PairCorr(frame.data[a], frame.data[b])
        IN IF c.k = "nan" THEN [k |-> "num", sign |-> 0, sq |-> Zero] ELSE c]]

\* returns_only.corr(): every pair of columns, the diagonal included, is
\* computed once and stored in both cells
CorrMatrix(frame) ==
    [a \in DOMAIN frame.data |-> [b \in DOMAIN frame.data |->
        IF IndexOf(frame.cols, a) >= IndexOf(frame.cols, b)
          THEN PairCorr(frame.data[a], frame.data[b])
          ELSE PairCorr(frame.data[b], frame.data[a])]]

InitCorr ==
    /\ \E n \in 1..CorrAssets : \E t \in 1..CorrDays :
          \E cells \in [1..n -> [1..t -> CorrReturns]] :
              returns_df = MakeReturns(cells)
    /\ apc = "loaded" /\ threshold = NaN
    /\ argsort_stable = TRUE /\ corr_in = <<>> /\ NoTables
    /\ MainIdle /\ AlignIdle /\ NetIdle

CreateCorrelationMatrix ==
    /\ apc = "loaded"
    /\ corr_matrix' = CorrMatrix(returns_df)
    /\ apc' = "corr"
    /\ UNCHANGED <<returns_df, argsort_stable, threshold, summary_df, corr_in,
                   avg_corr_df, uncorrelated_coins, identifyCalls, distVars>>
    /\ UNCHANGED <<webVars, mainVars, alignVars, netVars>>

NextCorr == CreateCorrelationMatrix

SpecCorr == InitCorr /\ [][NextCorr]_vars

(* ---- claims about create_correlation_matrix ---- *)

Observed(series) == Len(SelectSeq(series, LAMBDA x : ~IsNaN(x)))

\* C5: in every correlation matrix produced by create_correlation_matrix,
\* also over a matrix with a constant (zero-variance) column, every diagonal
\* entry is 1.0, the matrix is symmetric, and every off-diagonal entry lies
\* in [-1, 1] or is undefined. Stated over the return matrices in which
\* every asset has at least two returns.
C5_CorrelationMatrixShape ==
    (apc = "corr" /\ \A a \in DOMAIN returns_df.data : Observed(returns_df.data[a]) >= 2) =>
        \A a \in DOMAIN corr_matrix : \A b \in DOMAIN corr_matrix :
            /\ corr_matrix[a][a] = CorrOne
            /\ corr_matrix[a][b] = corr_matrix[b][a]
            /\ a # b => \/ corr_matrix[a][b].k = "nan"
                        \/ Le(corr_matrix[a][b].sq, One)

(* ---- the correlation matrix of the returns of given price paths ---- *)

PathAssets == 3

\* daily prices of one asset: rising by a constant step, falling by a
\* constant step, constant, up and down, doubling
PricePaths == { <<1, 2, 3>>, <<3, 2, 1>>, <<1, 1, 1>>, <<1, 2, 1>>, <<1, 2, 4>> }

\* combined_prices: one column of prices per asset on a shared date axis
MakePrices(paths) ==
    LET n == Len(paths)
    IN [date |-> [r \in 1..Len(paths[1]) |-> r],
        cols |-> [i \in 1..n |-> SymbolNames[i]],
        data |-> [sym \in {SymbolNames[i] : i \in 1..n} |->
                    LET path == paths[CHOOSE i \in 1..n : SymbolNames[i] = sym]
                    IN [r \in 1..Len(path) |-> Num(path[r], 1)]]]

\* combined_returns: the daily_return column (pct_change of the price) of
\* every asset of combined_prices
ReturnsOfPrices(prices) ==
    [date |-> prices.date,
     cols |-> prices.cols,
     data |-> [sym \in DOMAIN prices.data |-> PctChange(prices.data[sym])]]

InitPrices ==
    /\ \E n \in 1..PathAssets : \E paths \in [1..n -> PricePaths] :
          combined_prices = MakePrices(paths)
    /\ combined_returns = ReturnsOfPrices(combined_prices)
    /\ returns_df = combined_returns
    /\ historical_data = <<>> /\ alignCalls = 0
    /\ apc = "loaded" /\ threshold = NaN
    /\ argsort_stable = TRUE /\ corr_in = <<>> /\ NoTables
    /\ MainIdle /\ NetIdle

SpecPrices == InitPrices /\ [][NextCorr]_vars

(* ---- claims about a constant asset in the correlation matrix ---- *)

\* every return of the column that is present is 0 (constant price)
AllZeroReturns(sym) ==
    \A t \in 1..Len(returns_df.data[sym]) :
        IsNaN(returns_df.data[sym][t]) \/ returns_df.data[sym][t] = Zero

Rising(sym) ==
    \A t \in 1..(Len(combined_prices.data[sym]) - 1) :
        Lt(combined_prices.data[sym][t], combined_prices.data[sym][t + 1])

Falling(sym) ==
    \A t \in 1..(Len(combined_prices.data[sym]) - 1) :
        Gt(combined_prices.data[sym][t], combined_prices.data[sym][t + 1])

\* the price changes by the same amount every day
ConstantStep(sym) ==
    \A t \in 2..(Len(combined_prices.data[sym]) - 1) :
        Sub(combined_prices.data[sym][t + 1], combined_prices.data[sym][t])
            = Sub(combined_prices.data[sym][t], combined_prices.data[sym][t - 1])

\* the frame without one of its columns
WithoutColumn(frame, sym) ==
    [date |-> frame.date,
     cols |-> SelectSeq(frame.cols, LAMBDA c : c # sym),
     data |-> [c \in DOMAIN frame.data \ {sym} |-> frame.data[c]]]

\* the coefficient of a constant asset with every other asset is NaN, and
\* the coefficients of the other assets are those of the matrix computed
\* without the constant asset
ConstantAssetUndefinedOthersKept ==
    \A z \in DOMAIN corr_matrix :
        AllZeroReturns(z) =>
            /\ \A b \in DOMAIN corr_matrix \ {z} :
                  corr_matrix[z][b] = CorrNaN /\ corr_matrix[b][z] = CorrNaN
            /\ \A a \in DOMAIN corr_matrix \ {z} : \A b \in DOMAIN corr_matrix \ {z} :
                  corr_matrix[a][b] = CorrMatrix(WithoutColumn(returns_df, z))[a][b]

\* C21 as stated: with an asset of all-zero returns in the matrix, its
\* correlation with every other asset is NaN, the correlations between the
\* remaining assets are unaffected, and a steadily rising asset and a
\* steadily falling asset are negatively correlated.
C21_ConstantAssetOthersNegative ==
    apc = "corr" =>
        /\ ConstantAssetUndefinedOthersKept
        /\ \A a \in DOMAIN corr_matrix : \A b \in DOMAIN corr_matrix :
              (Rising(a) /\ Falling(b)) =>
                  corr_matrix[a][b].k = "num" /\ corr_matrix[a][b].sign = -1

\* C21 amended: with an asset of all-zero returns in the matrix, its
\* correlation with every other asset is NaN and the correlations between
\* the remaining assets are those computed without it; the coefficient is
\* taken over returns, so an asset rising by a constant step and an asset
\* falling by a constant step are positively correlated.
C21_ConstantAssetOthersPositive ==
    apc = "corr" =>
        /\ ConstantAssetUndefinedOthersKept
        /\ \A a \in DOMAIN corr_matrix : \A b \in DOMAIN corr_matrix :
              (Rising(a) /\ Falling(b) /\ ConstantStep(a) /\ ConstantStep(b)) =>
                  corr_matrix[a][b].k = "num" /\ corr_matrix[a][b].sign = 1

\* a rising, a falling and a constant asset: the constant asset's
\* coefficients are NaN, the other two are correlated with coefficient +1
C21_Witness ==
    /\ apc = "corr"
    /\ returns_df.cols = <<"A", "B", "C">>
    /\ Rising("A") /\ ConstantStep("A") /\ Falling("B") /\ AllZeroReturns("C")
    /\ corr_matrix["A"]["C"] = CorrNaN /\ corr_matrix["B"]["C"] = CorrNaN
    /\ corr_matrix["A"]["B"] = CorrOne

----------------------------------------------------------------------------
(* analyze_correlations.py: identify_uncorrelated_coins                    *)

IdAssets == 3

CorrEntries == {NaN, Num(-1, 2), Num(3, 10), Num(9, 10)}

\* an unordered pair of column numbers
Pairs(n) == {p \in SUBSET (1..n) : Cardinality(p) = 2}

\* a correlation matrix as corr() returns it, with float entries: symmetric;
\* the assets in novar do not vary, their whole row and column is NaN, the
\* other diagonal cells are 1.0
MakeCorr(n, novar, upper) ==
    LET cell(i, j) ==
            IF i \in novar \/ j \in novar THEN NaN
            ELSE IF i = j THEN One
            ELSE upper[{i, j}]
    IN [cols |-> [i \in 1..n |-> SymbolNames[i]],
        data |-> [a \in {SymbolNames[i] : i \in 1..n} |->
                    [b \in {SymbolNames[i] : i \in 1..n} |->
                        cell(CHOOSE i \in 1..n : SymbolNames[i] = a,
                             CHOOSE j \in 1..n : SymbolNames[j] = b)]]]

\* the labels of the column, in order, the diagonal included
WithSelf(cols, coin) == cols

\* corr_matrix[coin].drop(coin): the labels left after the drop
OthersOf(cols, coin) == SelectSeq(cols, LAMBDA b : b # coin)

\* lines 152-157: the mean of the coin's column without its own row
AvgCorrelation(matrix, coin) ==
    LET others == OthersOf(matrix.cols, coin)
    IN MeanSkipNa([i \in 1..Len(others) |-> matrix.data[coin][others[i]]])

AtMostThreshold(value, th) == Lt(value, th) \/ Eq(value, th)

\* avg_corr_df['avg_correlation'] < threshold
BelowThreshold(value, th) == Lt(value, th)

AvgCorrUnsorted(matrix) ==
    [i \in 1..Len(matrix.cols) |->
        [symbol |-> matrix.cols[i],
         avg_correlation |-> AvgCorrelation(matrix, matrix.cols[i])]]

\* lines 159-169
AvgCorrTable(matrix) ==
    SortValues([i \in 1..Len(matrix.cols) |->
                   [symbol |-> matrix.cols[i],
                    avg_correlation |-> AvgCorrelation(matrix, matrix.cols[i])]],
               "avg_correlation", TRUE)

\* avg_corr_df[avg_corr_df['avg_correlation'] < threshold]
UncorrelatedCoins(table, th) ==
    BooleanIndex(table, [i \in 1..Len(table) |->
                            BelowThreshold(table[i].avg_correlation, th)])

InitIdentify ==
    /\ \E n \in 1..IdAssets : \E novar \in SUBSET (1..n) :
          \E upper \in [Pairs(n) -> CorrEntries] :
              corr_in = MakeCorr(n, novar, upper)
    /\ apc = "matrix" /\ threshold = NaN
    /\ argsort_stable \in BOOLEAN /\ returns_df = NoFrame /\ NoTables
    /\ MainIdle /\ AlignIdle /\ NetIdle

\* identify_uncorrelated_coins(corr_matrix, threshold)
IdentifyUncorrelatedCoins ==
    /\ apc \in {"matrix", "identified"}
    /\ identifyCalls < MaxCalls
    /\ identifyCalls' = identifyCalls + 1
    /\ \E th \in (IF identifyCalls = 0 THEN Thresholds ELSE {threshold}) :
          /\ threshold' = th
          /\ avg_corr_df' = AvgCorrTable(corr_in)
          /\ uncorrelated_coins' = UncorrelatedCoins(AvgCorrTable(corr_in), th)
    /\ apc' = "identified"
    /\ UNCHANGED <<returns_df, argsort_stable, summary_df, corr_matrix, corr_in, distVars>>
    /\ UNCHANGED <<webVars, mainVars, alignVars, netVars>>

NextIdentify == IdentifyUncorrelatedCoins

SpecIdentify == InitIdentify /\ [][NextIdentify]_vars

(* ---- claims about identify_uncorrelated_coins ---- *)

SameFloat(x, y) == (IsNaN(x) /\ IsNaN(y)) \/ x = y

AvgOf(table, sym) == (CHOOSE r \in RowSet(table) : r.symbol = sym).avg_correlation

RECURSIVE SumEntries(_, _, _)
SumEntries(matrix, coin, syms) ==
    IF syms = {} THEN Zero
    ELSE LET b == CHOOSE x \in syms : TRUE
         IN Add(matrix.data[coin][b], SumEntries(matrix, coin, syms \ {b}))

\* C6 as claimed: for every asset the AverageCorrelation is the sum of its
\* correlation values against every other asset divided by the number of
\* other assets (the self-pair in neither).
C6_MeanOverEveryOther ==
    apc = "identified" =>
        \A coin \in DOMAIN corr_in.data :
            LET others == DOMAIN corr_in.data \ {coin}
                avg == AvgOf(avg_corr_df, coin)
            IN IF others = {} THEN IsNaN(avg)
               ELSE SameFloat(avg, Div(SumEntries(corr_in, coin, others),
                                       Num(Cardinality(others), 1)))

\* C6 amended: for every asset the AverageCorrelation is the arithmetic
\* mean of its defined correlation values against the other assets (the
\* self-pair and the undefined values in neither the sum nor the count), and
\* undefined when no other asset has a defined correlation with it.
C6_MeanOverDefinedOthers ==
    apc = "identified" =>
        /\ SymbolsIn(avg_corr_df) = DOMAIN corr_in.data
        /\ Len(avg_corr_df) = Len(corr_in.cols)
        /\ \A coin \in DOMAIN corr_in.data :
              LET defined == {b \in DOMAIN corr_in.data \ {coin} :
                                 ~IsNaN(corr_in.data[coin][b])}
                  avg == AvgOf(avg_corr_df, coin)
              IN IF defined = {} THEN IsNaN(avg)
                 ELSE /\ IsNum(avg)
                      /\ Mul(avg, Num(Cardinality(defined), 1)) =
                            SumEntries(corr_in, coin, defined)

\* three assets, all correlations defined: A's average is the mean of 0.3
\* and 0.9, its own 1.0 staying out
C6_Witness ==
    /\ apc = "identified"
    /\ corr_in.cols = <<"A", "B", "C">>
    /\ corr_in.data["A"]["A"] = One
    /\ corr_in.data["A"]["B"] = Num(3, 10)
    /\ corr_in.data["A"]["C"] = Num(9, 10)
    /\ AvgOf(avg_corr_df, "A") = Num(3, 5)

\* C7: for every threshold, uncorrelated_coins holds exactly the assets
\* whose AverageCorrelation is strictly below the threshold; an asset whose
\* AverageCorrelation equals the threshold, or is undefined, is left out.
C7_UncorrelatedStrictlyBelow ==
    apc = "identified" =>
        /\ RowSet(uncorrelated_coins) \subseteq RowSet(avg_corr_df)
        /\ \A r \in RowSet(avg_corr_df) :
              /\ (r \in RowSet(uncorrelated_coins)) <=>
                    (IsNum(r.avg_correlation) /\ Lt(r.avg_correlation, threshold))
              /\ r.avg_correlation = threshold => r \notin RowSet(uncorrelated_coins)
              /\ IsNaN(r.avg_correlation) => r \notin RowSet(uncorrelated_coins)

\* default threshold 0.3: A averages exactly 0.3 and is left out, B and C
\* average -0.1 and are selected
C7_Witness ==
    /\ apc = "identified"
    /\ threshold = DefaultThreshold
    /\ AvgOf(avg_corr_df, "A") = DefaultThreshold
    /\ SymbolsIn(uncorrelated_coins) = {"B", "C"}
    /\ AvgOf(avg_corr_df, "B") = Num(-1, 10)

----------------------------------------------------------------------------
(* analyze_correlations.py: calculate_average_changes                      *)

DaysPerYear == 365

RECURSIVE ProdSeq(_)
ProdSeq(s) == IF s = <<>> THEN One ELSE Mul(s[1], ProdSeq(Tail(s)))

ProdWithNa(series) ==
    Sub(ProdSeq([i \in 1..Len(series) |-> Add(One, series[i])]), One)

\* (1 + column).prod() - 1: prod() skips the missing cells, and is 1 when
\* every cell is missing
CumulativeReturn(series) ==
    LET present == SelectSeq(series, LAMBDA x : ~IsNaN(x))
    IN Sub(ProdSeq([i \in 1..Len(present) |-> Add(One, present[i])]), One)

\* A standard deviation and a Sharpe ratio are square roots; like a Pearson
\* coefficient they are kept exactly as a sign and a square.
RootNaN == [k |-> "nan", sign |-> 0, sq |-> Zero]
RootInf(s) == [k |-> IF s > 0 THEN "pinf" ELSE "ninf", sign |-> s, sq |-> Zero]

\* DataFrame.std(): skipna, ddof = 1; NaN when fewer than two cells are
\* present (nanvar: count <= ddof)
StdSkipNa(series) ==
    LET present == SelectSeq(series, LAMBDA x : ~IsNaN(x))
        count == Len(present)
        avg == Div(SumSeq(present), Num(count, 1))
        sqr == SumSeq([i \in 1..count |->
                          Mul(Sub(avg, present[i]), Sub(avg, present[i]))])
        var == Div(sqr, Num(count - 1, 1))
    IN IF count < 2 THEN RootNaN
       ELSE [k |-> "num", sign |-> Sgn(var), sq |-> var]

\* avg_daily_returns / std_daily_returns * np.sqrt(365)
SharpeRatio(avg, std) ==
    IF IsNaN(avg) \/ std.k = "nan" THEN RootNaN
    ELSE IF std.sign = 0
      THEN (IF Sgn(avg) = 0 THEN RootNaN ELSE RootInf(Sgn(avg)))
    ELSE [k |-> "num", sign |-> Sgn(avg),
          sq |-> Div(Mul(Mul(avg, avg), Num(DaysPerYear, 1)), std.sq)]

\* (1 + cumulative) ** (365 / days_count) - 1 is irrational in general. For
\* one day count it is strictly increasing in the cumulative return wherever
\* it is defined, so it is kept as the cumulative return it is the image of
\* (fields k, n, d) next to the exponent: the values of one table compare as
\* their cumulative returns do. A negative base with a fractional exponent
\* is NaN.
Annualized(cum, days) ==
    IF Lt(Add(One, cum), Zero) /\ DaysPerYear % days # 0 THEN NaN
    ELSE [k |-> cum.k, n |-> cum.n, d |-> cum.d, exp |-> <<DaysPerYear, days>>]

\* summary_df.sort_values('annualized_return', ascending=False)
SortSummary(rows, key) == SortValues(rows, key, FALSE)

\* calculate_average_changes(returns_df)
AverageChanges(frame) ==
    LET row(sym) ==
            LET avg == MeanSkipNa(frame.data[sym])
                std == StdSkipNa(frame.data[sym])
                cum == CumulativeReturn(frame.data[sym])
            IN [symbol |-> sym,
                avg_daily_return |-> avg,
                std_daily_return |-> std,
                cumulative_return |-> cum,
                annualized_return |-> Annualized(cum, NumRows(frame)),
                sharpe_ratio |-> SharpeRatio(avg, std)]
    IN SortSummary([i \in 1..Len(frame.cols) |-> row(frame.cols[i])],
                   "annualized_return")

----------------------------------------------------------------------------
(* analyze_price_distance.py: generate_comparison_data                     *)

\* Timestamp.strftime('%Y-%m-%d')
StrfTime(day) == [ymd |-> day]

AllRows(d) == d.distance_df

\* the rows iterated at line 186
OutlierRows(d) == d.out_of_threshold

\* generate_comparison_data(cum_returns_df, market_cum_return, out_of_threshold),
\* called with the results of calculate_price_distance
ComparisonData(d) ==
    LET rows == OutlierRows(d)
    IN [dates |-> [t \in 1..Len(d.cum_returns_df.date) |->
                      StrfTime(d.cum_returns_df.date[t])],
        market_avg |-> d.market_cum_return,
        coins |-> [sym \in {rows[i].symbol : i \in 1..Len(rows)} |->
                     LET r == CHOOSE x \in {rows[i] : i \in 1..Len(rows)} :
                                  x.symbol = sym
                     IN [name |-> sym,
                         data |-> d.cum_returns_df.data[sym],
                         cumulative_return |-> r.cumulative_return,
                         price_distance |-> r.price_distance,
                         relative_distance |-> r.relative_distance]]]

----------------------------------------------------------------------------
(* The two analysis scripts, run one after the other on the same aligned   *)
(* return matrix (main.py, stages 3 and 4).                                *)

AnAssets == 2
AnDays == 2

\* 0.5 is a binary fraction: sums and products of the model are the floats
\* the program computes
AnReturns == {NaN, Zero, Num(1, 2)}

ISqrt(n) == CHOOSE r \in 0..n : r * r = n

\* the float of a coefficient kept as sign and square
CorrFloat(c) ==
    IF c.k = "nan" THEN NaN
    ELSE Num(c.sign * ISqrt(c.sq.n), ISqrt(c.sq.d))

\* corr_matrix as the DataFrame handed to identify_uncorrelated_coins
CorrFrame(frame, matrix) ==
    [cols |-> frame.cols,
     data |-> [a \in DOMAIN matrix |-> [b \in DOMAIN matrix |-> CorrFloat(matrix[a][b])]]]

InitAnalysis ==
    /\ \E n \in 1..AnAssets : \E t \in 1..AnDays :
          \E cells \in [1..n -> [1..t -> AnReturns]] :
              returns_df = MakeReturns(cells)
    /\ apc = "files" /\ threshold = NaN
    /\ argsort_stable \in BOOLEAN /\ corr_in = <<>> /\ NoTables
    /\ MainIdle /\ AlignIdle /\ NetIdle

\* analyze_correlations.py, __main__ with the combined files present
AnalyzeCorrelations ==
    /\ apc = "files"
    /\ summary_df' = AverageChanges(returns_df)
    /\ corr_matrix' = CorrMatrix(returns_df)
    /\ corr_in' = CorrFrame(returns_df, corr_matrix')
    /\ avg_corr_df' = AvgCorrTable(corr_in')
    /\ uncorrelated_coins' = UncorrelatedCoins(avg_corr_df', DefaultThreshold)
    /\ threshold' = DefaultThreshold
    /\ identifyCalls' = identifyCalls + 1
    /\ apc' = "correlations"
    /\ UNCHANGED <<returns_df, argsort_stable, distVars>>
    /\ UNCHANGED <<webVars, mainVars, alignVars, netVars>>

\* analyze_price_distance.py, __main__ with the combined files present
AnalyzePriceDistance ==
    /\ apc = "correlations"
    /\ market_df' = MarketAverage(returns_df)
    /\ dist' = PriceDistance(returns_df, market_df', DefaultThreshold)
    /\ comparison_data' = ComparisonData(dist')
    /\ apc' = "distances"
    /\ UNCHANGED <<returns_df, argsort_stable, threshold, corrVars>>
    /\ UNCHANGED <<webVars, mainVars, alignVars, netVars>>

NextAnalysis ==
    \/ AnalyzeCorrelations
    \/ AnalyzePriceDistance

SpecAnalysis == InitAnalysis /\ [][NextAnalysis]_vars

(* ---- claims about the tables of the analysis scripts ---- *)

SummaryRow(sym) == CHOOSE r \in RowSet(summary_df) : r.symbol = sym

\* C12: in the summary table a return column with fewer than 2 valid
\* observations has std = 0, and whenever an asset's std is 0, with a zero
\* or a non-zero mean return, its Sharpe-like ratio is NaN, never 0 and
\* never another number.
C12_FlatColumnSharpeUndefined ==
    apc \in {"correlations", "distances"} =>
        \A r \in RowSet(summary_df) :
            /\ Observed(returns_df.data[r.symbol]) < 2 =>
                  (r.std_daily_return.k = "num" /\ r.std_daily_return.sq = Zero)
            /\ (r.std_daily_return.k = "num" /\ r.std_daily_return.sq = Zero) =>
                  r.sharpe_ratio.k = "nan"
\* the symbols of the table, each one once, are the columns of the matrix
OneRowPerAsset(table) ==
    /\ Len(table) = Len(returns_df.cols)
    /\ SymbolsIn(table) = {returns_df.cols[i] : i \in 1..Len(returns_df.cols)}

DistanceRow(sym) == CHOOSE r \in RowSet(dist.distance_df) : r.symbol = sym

C14_CumulativeReturnsAgree ==
    apc = "distances" =>
        \A sym \in DOMAIN returns_df.data :
            /\ SummaryRow(sym).cumulative_return = DistanceRow(sym).cumulative_return
            /\ DistanceRow(sym).cumulative_return =
                   Last(dist.cum_returns_df.data[sym])

\* a column whose first return is missing and a column with none at all
C14_Witness ==
    /\ apc = "distances"
    /\ returns_df.cols = <<"A", "B">>
    /\ returns_df.data["A"] = <<NaN, Num(1, 2)>>
    /\ returns_df.data["B"] = <<NaN, NaN>>
    /\ SummaryRow("A").cumulative_return = Num(1, 2)
    /\ DistanceRow("A").cumulative_return = Num(1, 2)
    /\ SummaryRow("B").cumulative_return = Zero
    /\ DistanceRow("B").cumulative_return = Zero

\* C16: the summary table is ordered descending by annualized return, and
\* two assets with equal annualized return are in the order of their columns
\* in the return matrix.
C16_SummaryDescendingStable ==
    apc \in {"correlations", "distances"} =>
        \A i \in 1..Len(summary_df) : \A j \in 1..Len(summary_df) :
            i < j =>
                LET a == summary_df[i]
                    b == summary_df[j]
                IN /\ ~Lt(a.annualized_return, b.annualized_return)
                   /\ Eq(a.annualized_return, b.annualized_return) =>
                         IndexOf(returns_df.cols, a.symbol) <
                             IndexOf(returns_df.cols, b.symbol)
RECURSIVE IsSubsequence(_, _)
IsSubsequence(s, t) ==
    IF s = <<>> THEN TRUE
    ELSE IF t = <<>> THEN FALSE
    ELSE IF s[1] = t[1] THEN IsSubsequence(Tail(s), Tail(t))
    ELSE IsSubsequence(s, Tail(t))

\* C18: uncorrelated_coins is an order-preserving sub-sequence of the
\* average-correlation ranking and out_of_threshold one of the divergence
\* table: rows are removed, never reordered or altered.
C18_OutliersAreSubsequences ==
    /\ apc \in {"correlations", "distances"} =>
          IsSubsequence(uncorrelated_coins, avg_corr_df)
    /\ apc = "distances" =>
          IsSubsequence(dist.out_of_threshold, dist.distance_df)

\* two assets, A without a return: neither has a defined average
\* correlation and both rows are removed from the ranking; only the first
\* row of the divergence table is above the threshold and kept
C18_Witness ==
    /\ apc = "distances"
    /\ Len(avg_corr_df) = 2
    /\ uncorrelated_coins = <<>>
    /\ Len(dist.distance_df) = 2
    /\ dist.out_of_threshold = <<dist.distance_df[1]>>

\* C20: the comparison payload has an entry under 'coins' for exactly the
\* assets of the threshold-filtered divergence table, and its 'dates' list,
\* its 'market_avg' list and the 'data' list of every coin have the length
\* of the aligned return matrix.
C20_ComparisonPayloadShape ==
    apc = "distances" =>
        /\ DOMAIN comparison_data.coins = SymbolsIn(dist.out_of_threshold)
        /\ Len(comparison_data.dates) = NumRows(returns_df)
        /\ Len(comparison_data.market_avg) = NumRows(returns_df)
        /\ \A sym \in DOMAIN comparison_data.coins :
              Len(comparison_data.coins[sym].data) = NumRows(returns_df)

\* one of two assets is out of the threshold: the payload holds that asset
\* only, with two dates
C20_Witness ==
    /\ apc = "distances"
    /\ returns_df.cols = <<"A", "B">>
    /\ NumRows(returns_df) = 2
    /\ Cardinality(DOMAIN comparison_data.coins) = 1
    /\ Len(comparison_data.dates) = 2


----------------------------------------------------------------------------
(* web_visualization/app.py                                                *)

\* content of an artifact file: none, written by the analysis, written by
\* create_sample_data, not readable as what its endpoint expects
Contents == {"absent", "real", "sample", "corrupt"}

Endpoints == {"/api/comparison-data", "/api/uncorrelated-coins",
              "/api/price-distance-coins", "/api/average-returns"}

\* the artifact each endpoint reads
EndpointFile(endpoint) ==
    CASE endpoint = "/api/comparison-data" -> "comparison_data.json"
      [] endpoint = "/api/uncorrelated-coins" -> "uncorrelated_coins.csv"
      [] endpoint = "/api/price-distance-coins" -> "out_of_threshold_coins.csv"
      [] endpoint = "/api/average-returns" -> "average_returns.csv"

\* files_exist (lines 24-29)
FilesExist == \A f \in SampleFiles : artifacts[f] # "absent"

\* the four writes of lines 81-86: each file is opened for writing and
\* filled with the sample data
WriteSample(f) == "sample"

CaughtUnlessFileNotFound(exc) == exc # "FileNotFoundError"

\* except Exception: every exception that reading a file raises
Caught(exc) == TRUE

\* the app is started in a directory whose artifacts are absent, written
\* by the analysis or damaged; without the directory there are none
InitWeb ==
    /\ wpc = "start"
    /\ analysis_dir \in BOOLEAN
    /\ artifacts \in [SampleFiles -> Contents \ {"sample"}]
    /\ ~analysis_dir => \A f \in SampleFiles : artifacts[f] = "absent"
    /\ handler = NoHandler /\ reply = NoReply /\ escaped = FALSE
    /\ MainIdle /\ AlignIdle /\ AnalysisIdle /\ RetryIdle /\ LoopIdle

\* create_sample_data(), called once before app.run
CreateSampleData ==
    /\ wpc = "start"
    /\ analysis_dir' = TRUE
    /\ IF ~FilesExist
         THEN artifacts' = [f \in SampleFiles |-> WriteSample(f)]
         ELSE UNCHANGED artifacts
    /\ wpc' = "serving"
    /\ UNCHANGED <<handler, reply, escaped>>
    /\ UNCHANGED <<mainVars, alignVars, analysisVars, netVars>>

\* a request arrives: answer 404 when os.path.exists is false, else go on
\* to read the file
CheckExists ==
    /\ wpc = "serving" /\ handler.at = "idle" /\ ~escaped
    /\ \E endpoint \in Endpoints :
          IF artifacts[EndpointFile(endpoint)] = "absent"
            THEN /\ reply' = [endpoint |-> endpoint, status |-> 404, body |-> "error"]
                 /\ handler' = NoHandler
            ELSE /\ handler' = [endpoint |-> endpoint, at |-> "checked"]
                 /\ UNCHANGED reply
    /\ UNCHANGED <<wpc, analysis_dir, artifacts, escaped>>
    /\ UNCHANGED <<mainVars, alignVars, analysisVars, netVars>>

\* the exception that reading content raises, "none" when it is read
ReadRaises(content) ==
    CASE content = "absent" -> "FileNotFoundError"
      [] content = "corrupt" -> "ValueError"
      [] OTHER -> "none"

\* open / json.load / pd.read_csv / to_dict / jsonify, and the except
\* clause of the handler
ReadArtifact ==
    /\ wpc = "serving" /\ handler.at = "checked"
    /\ LET content == artifacts[EndpointFile(handler.endpoint)]
           exc == ReadRaises(content)
       IN IF exc = "none"
            THEN /\ reply' = [endpoint |-> handler.endpoint, status |-> 200, body |-> content]
                 /\ UNCHANGED escaped
            ELSE IF Caught(exc)
              THEN /\ reply' = [endpoint |-> handler.endpoint, status |-> 500, body |-> exc]
                   /\ UNCHANGED escaped
              ELSE /\ escaped' = TRUE
                   /\ UNCHANGED reply
    /\ handler' = NoHandler
    /\ UNCHANGED <<wpc, analysis_dir, artifacts>>
    /\ UNCHANGED <<mainVars, alignVars, analysisVars, netVars>>

\* someone else removes an artifact while the app is serving
ArtifactDisappears ==
    /\ wpc = "serving"
    /\ \E f \in SampleFiles :
          /\ artifacts[f] # "absent"
          /\ artifacts' = [artifacts EXCEPT ![f] = "absent"]
    /\ UNCHANGED <<wpc, analysis_dir, handler, reply, escaped>>
    /\ UNCHANGED <<mainVars, alignVars, analysisVars, netVars>>

NextWeb ==
    \/ CreateSampleData
    \/ CheckExists
    \/ ReadArtifact
    \/ ArtifactDisappears

SpecWeb == InitWeb /\ [][NextWeb]_vars

(* ---- claims about app.py ---- *)

\* C28: create_sample_data leaves every artifact that is already present
\* unchanged, whichever of the four are present, and writes nothing when
\* all four are present.
C28_PresentArtifactsUnchanged ==
    [][(wpc = "start" /\ wpc' = "serving") =>
          /\ \A f \in SampleFiles : artifacts[f] # "absent" => artifacts'[f] = artifacts[f]
          /\ FilesExist => artifacts' = artifacts]_vars

\* a step of an endpoint handler
HandlerStep == wpc = "serving" /\ <<handler, reply, escaped>>' # <<handler, reply, escaped>>

\* C29: an endpoint answers 404 with an error body when its artifact does
\* not exist at the existence check, 500 with an error body when reading it
\* fails, also when the file has gone since the check, and the data
\* otherwise; no exception leaves a handler and no handler changes an
\* artifact.
C29_EndpointsAnswerAndNeverWrite ==
    [][HandlerStep =>
          /\ artifacts' = artifacts
          /\ ~escaped'
          /\ handler.at = "idle" =>
                \/ /\ handler'.at = "checked" /\ reply' = reply
                   /\ artifacts[EndpointFile(handler'.endpoint)] # "absent"
                \/ /\ handler' = NoHandler
                   /\ reply'.status = 404 /\ reply'.body = "error"
                   /\ artifacts[EndpointFile(reply'.endpoint)] = "absent"
          /\ handler.at = "checked" =>
                /\ handler' = NoHandler
                /\ reply'.endpoint = handler.endpoint
                /\ IF artifacts[EndpointFile(handler.endpoint)] \in {"real", "sample"}
                     THEN /\ reply'.status = 200
                          /\ reply'.body = artifacts[EndpointFile(handler.endpoint)]
                     ELSE /\ reply'.status = 500
                          /\ reply'.body \in {"FileNotFoundError", "ValueError"}]_vars

\* /api/average-returns answered 500 because average_returns.csv went away
\* between the existence check and the read
C29_Witness ==
    /\ reply = [endpoint |-> "/api/average-returns", status |-> 500,
                body |-> "FileNotFoundError"]
    /\ artifacts["average_returns.csv"] = "absent"
    /\ ~escaped

====
